---- MODULE Spec2Model ----
(***************************************************************************)
(* The Get query gateway of the v4 client (clients/modules/get.ts): every  *)
(* query method encodes a request message, hands (path, bytes) to          *)
(* stargateQueryClient.queryUnverified through sendQuery, awaits the       *)
(* transport, and decodes the reply.  latestBlock / latestBlockHeight use  *)
(* tendermintClient.getBlock instead.                                      *)
(*                                                                         *)
(* A call is an async function: the part before the await (encode, send)   *)
(* runs when the method is invoked, the transport settles the promise      *)
(* later, and the continuation (decode, return or throw) runs after that.  *)
(***************************************************************************)
EXTENDS Integers, Sequences, FiniteSets, TLC

\* Number of calls that may be in flight at once.
MaxCalls == 2
\* Largest id passed to getClobPair / getPrice / getPerpetual / getSubaccount.
MaxId == 1

CallIds == 1..MaxCalls
Ids == 0..MaxId

(***************************************************************************)
(* JS values.  A possibly-undefined value is a set with at most one        *)
(* element: Undefined is `undefined`, Some(v) is the value v.              *)
(***************************************************************************)
Undefined == {}
Some(v) == {v}
The(opt) == CHOOSE v \in opt : TRUE

\* obj.f for a decoded message: undefined when the field is not set.
Field(obj, f) == IF f \in DOMAIN obj THEN Some(obj[f]) ELSE Undefined

\* The object literal {}.
EmptyObject == [f \in {} |-> f]

(***************************************************************************)
(* The methods of Get.                                                     *)
(***************************************************************************)
BlockMethods == {"latestBlock", "latestBlockHeight"}

QueryMethods ==
  { "getFeeTiers", "getUserFeeTier", "getUserStats", "getAccountBalances",
    "getAccountBalance", "getSubaccounts", "getSubaccount", "getRewardsParams",
    "getAllClobPairs", "getClobPair", "getAllPrices", "getPrice",
    "getAllPerpetuals", "getPerpetual", "getAccount",
    "getEquityTierLimitConfiguration", "getDelegatorDelegations",
    "getDelegatorUnbondingDelegations", "getDelayedCompleteBridgeMessages",
    "getAllValidators" }

Methods == QueryMethods \cup BlockMethods

\* The list-returning query methods.
ListMethods ==
  { "getSubaccounts", "getAllClobPairs", "getAllPrices", "getAllPerpetuals",
    "getDelegatorDelegations", "getDelegatorUnbondingDelegations",
    "getAllValidators" }

\* The path literal each method passes to sendQuery.
requestUrl(m) ==
  CASE m = "getFeeTiers" -> "/dydxprotocol.feetiers.Query/PerpetualFeeParams"
    [] m = "getUserFeeTier" -> "/dydxprotocol.feetiers.Query/UserFeeTier"
    [] m = "getUserStats" -> "/dydxprotocol.stats.Query/UserStats"
    [] m = "getAccountBalances" -> "/cosmos.bank.v1beta1.Query/AllBalances"
    [] m = "getAccountBalance" -> "/cosmos.bank.v1beta1.Query/Balance"
    [] m = "getSubaccounts" -> "/dydxprotocol.subaccounts.Query/SubaccountAll"
    [] m = "getSubaccount" -> "/dydxprotocol.subaccounts.Query/Subaccount"
    [] m = "getRewardsParams" -> "/dydxprotocol.rewards.Query/Params"
    [] m = "getAllClobPairs" -> "/dydxprotocol.clob.Query/ClobPairAll"
    [] m = "getClobPair" -> "/dydxprotocol.clob.Query/ClobPair"
    [] m = "getAllPrices" -> "/dydxprotocol.prices.Query/AllMarketPrices"
    [] m = "getPrice" -> "/dydxprotocol.prices.Query/MarketPrice"
    [] m = "getAllPerpetuals" -> "/dydxprotocol.perpetuals.Query/AllPerpetuals"
    [] m = "getPerpetual" -> "/dydxprotocol.perpetuals.Query/Perpetual"
    [] m = "getAccount" -> "/cosmos.auth.v1beta1.Query/Account"
    [] m = "getEquityTierLimitConfiguration" ->
         "/dydxprotocol.clob.Query/EquityTierLimitConfiguration"
    [] m = "getDelegatorDelegations" ->
         "/cosmos.staking.v1beta1.Query/DelegatorDelegations"
    [] m = "getDelegatorUnbondingDelegations" ->
         "/cosmos.staking.v1beta1.Query/DelegatorUnbondingDelegations"
    [] m = "getDelayedCompleteBridgeMessages" ->
         "/dydxprotocol.bridge.Query/DelayedCompleteBridgeMessages"
    [] m = "getAllValidators" -> "/cosmos.staking.v1beta1.Query/Validators"

Paths == { requestUrl(m) : m \in QueryMethods }

\* The message type each method calls .encode on.
RequestType(m) ==
  CASE m = "getFeeTiers" -> "FeeTierModule.QueryPerpetualFeeParamsRequest"
    [] m = "getUserFeeTier" -> "FeeTierModule.QueryUserFeeTierRequest"
    [] m = "getUserStats" -> "StatsModule.QueryUserStatsRequest"
    [] m = "getAccountBalances" -> "BankModule.QueryAllBalancesRequest"
    [] m = "getAccountBalance" -> "BankModule.QueryBalanceRequest"
    [] m = "getSubaccounts" -> "SubaccountsModule.QueryAllSubaccountRequest"
    [] m = "getSubaccount" -> "SubaccountsModule.QueryGetSubaccountRequest"
    [] m = "getRewardsParams" -> "RewardsModule.QueryParamsRequest"
    [] m = "getAllClobPairs" -> "ClobModule.QueryAllClobPairRequest"
    [] m = "getClobPair" -> "ClobModule.QueryGetClobPairRequest"
    [] m = "getAllPrices" -> "PricesModule.QueryAllMarketPricesRequest"
    [] m = "getPrice" -> "PricesModule.QueryMarketPriceRequest"
    [] m = "getAllPerpetuals" -> "PerpetualsModule.QueryAllPerpetualsRequest"
    [] m = "getPerpetual" -> "PerpetualsModule.QueryPerpetualRequest"
    [] m = "getAccount" -> "AuthModule.QueryAccountRequest"
    [] m = "getEquityTierLimitConfiguration" ->
         "ClobModule.QueryEquityTierLimitConfigurationRequest"
    [] m = "getDelegatorDelegations" ->
         "StakingModule.QueryDelegatorDelegationsRequest"
    [] m = "getDelegatorUnbondingDelegations" ->
         "StakingModule.QueryDelegatorUnbondingDelegationsRequest"
    [] m = "getDelayedCompleteBridgeMessages" ->
         "BridgeModule.QueryDelayedCompleteBridgeMessagesRequest"
    [] m = "getAllValidators" -> "StakingModule.QueryValidatorsRequest"

\* The message type each method calls .decode on.
\* The message type getClobPair calls .decode on.
\* Variant: the response type of the neighbouring getAllClobPairs.
getClobPairResponseOfAll == "ClobModule.QueryClobPairAllResponse"

getClobPairResponse == "ClobModule.QueryClobPairResponse"

ResponseType(m) ==
  CASE m = "getFeeTiers" -> "FeeTierModule.QueryPerpetualFeeParamsResponse"
    [] m = "getUserFeeTier" -> "FeeTierModule.QueryUserFeeTierResponse"
    [] m = "getUserStats" -> "StatsModule.QueryUserStatsResponse"
    [] m = "getAccountBalances" -> "BankModule.QueryAllBalancesResponse"
    [] m = "getAccountBalance" -> "BankModule.QueryBalanceResponse"
    [] m = "getSubaccounts" -> "SubaccountsModule.QuerySubaccountAllResponse"
    [] m = "getSubaccount" -> "SubaccountsModule.QuerySubaccountResponse"
    [] m = "getRewardsParams" -> "RewardsModule.QueryParamsResponse"
    [] m = "getAllClobPairs" -> "ClobModule.QueryClobPairAllResponse"
    [] m = "getClobPair" -> getClobPairResponse
    [] m = "getAllPrices" -> "PricesModule.QueryAllMarketPricesResponse"
    [] m = "getPrice" -> "PricesModule.QueryMarketPriceResponse"
    [] m = "getAllPerpetuals" -> "PerpetualsModule.QueryAllPerpetualsResponse"
    [] m = "getPerpetual" -> "PerpetualsModule.QueryPerpetualResponse"
    [] m = "getAccount" -> "AuthModule.QueryAccountResponse"
    [] m = "getEquityTierLimitConfiguration" ->
         "ClobModule.QueryEquityTierLimitConfigurationResponse"
    [] m = "getDelegatorDelegations" ->
         "StakingModule.QueryDelegatorDelegationsResponse"
    [] m = "getDelegatorUnbondingDelegations" ->
         "StakingModule.QueryDelegatorUnbondingDelegationsResponse"
    [] m = "getDelayedCompleteBridgeMessages" ->
         "BridgeModule.QueryDelayedCompleteBridgeMessagesResponse"
    [] m = "getAllValidators" -> "StakingModule.QueryValidatorsResponse"

(***************************************************************************)
(* Protobuf messages.  A message object is a function from field names to  *)
(* values.  The wire form carries only the fields that were written: a     *)
(* scalar or repeated field equal to its default is omitted, a message     *)
(* field is written when it is set.  Decoding restores the defaults of the *)
(* scalar and repeated fields and leaves unset message fields undefined.   *)
(***************************************************************************)
PaginationOnly == [pagination |-> "message"]
IdOnly == [id |-> "uint32"]

\* Field name -> kind, of each request message type.
RequestSchema(T) ==
  CASE T \in { "FeeTierModule.QueryPerpetualFeeParamsRequest",
               "RewardsModule.QueryParamsRequest",
               "ClobModule.QueryEquityTierLimitConfigurationRequest" } ->
         EmptyObject
    [] T \in { "FeeTierModule.QueryUserFeeTierRequest",
               "StatsModule.QueryUserStatsRequest" } -> [user |-> "string"]
    [] T = "BankModule.QueryAllBalancesRequest" ->
         [address |-> "string", pagination |-> "message"]
    [] T = "BankModule.QueryBalanceRequest" ->
         [address |-> "string", denom |-> "string"]
    [] T \in { "SubaccountsModule.QueryAllSubaccountRequest",
               "ClobModule.QueryAllClobPairRequest",
               "PricesModule.QueryAllMarketPricesRequest",
               "PerpetualsModule.QueryAllPerpetualsRequest" } -> PaginationOnly
    [] T = "SubaccountsModule.QueryGetSubaccountRequest" ->
         [owner |-> "string", number |-> "uint32"]
    [] T \in { "ClobModule.QueryGetClobPairRequest",
               "PricesModule.QueryMarketPriceRequest",
               "PerpetualsModule.QueryPerpetualRequest" } -> IdOnly
    [] T \in { "AuthModule.QueryAccountRequest",
               "BridgeModule.QueryDelayedCompleteBridgeMessagesRequest" } ->
         [address |-> "string"]
    [] T \in { "StakingModule.QueryDelegatorDelegationsRequest",
               "StakingModule.QueryDelegatorUnbondingDelegationsRequest" } ->
         [delegatorAddr |-> "string", pagination |-> "message"]
    [] T = "StakingModule.QueryValidatorsRequest" ->
         [status |-> "string", pagination |-> "message"]

\* Field name -> kind, of each response message type (the payload field).
ResponseSchema(T) ==
  CASE T = "FeeTierModule.QueryPerpetualFeeParamsResponse" -> [params |-> "message"]
    [] T = "FeeTierModule.QueryUserFeeTierResponse" ->
         [index |-> "uint32", tier |-> "message"]
    [] T = "StatsModule.QueryUserStatsResponse" -> [stats |-> "message"]
    [] T = "BankModule.QueryAllBalancesResponse" -> [balances |-> "repeated"]
    [] T = "BankModule.QueryBalanceResponse" -> [balance |-> "message"]
    [] T = "SubaccountsModule.QuerySubaccountAllResponse" ->
         [subaccount |-> "repeated"]
    [] T = "SubaccountsModule.QuerySubaccountResponse" ->
         [subaccount |-> "message"]
    [] T = "RewardsModule.QueryParamsResponse" -> [params |-> "message"]
    [] T = "ClobModule.QueryClobPairAllResponse" -> [clobPair |-> "repeated"]
    [] T = "ClobModule.QueryClobPairResponse" -> [clobPair |-> "message"]
    [] T = "PricesModule.QueryAllMarketPricesResponse" ->
         [marketPrices |-> "repeated"]
    [] T = "PricesModule.QueryMarketPriceResponse" -> [marketPrice |-> "message"]
    [] T = "PerpetualsModule.QueryAllPerpetualsResponse" ->
         [perpetual |-> "repeated"]
    [] T = "PerpetualsModule.QueryPerpetualResponse" -> [perpetual |-> "message"]
    [] T = "AuthModule.QueryAccountResponse" -> [account |-> "message"]
    [] T = "ClobModule.QueryEquityTierLimitConfigurationResponse" ->
         [equityTierLimitConfig |-> "message"]
    [] T = "StakingModule.QueryDelegatorDelegationsResponse" ->
         [delegationResponses |-> "repeated"]
    [] T = "StakingModule.QueryDelegatorUnbondingDelegationsResponse" ->
         [unbondingResponses |-> "repeated"]
    [] T = "BridgeModule.QueryDelayedCompleteBridgeMessagesResponse" ->
         [messages |-> "repeated"]
    [] T = "StakingModule.QueryValidatorsResponse" -> [validators |-> "repeated"]

RequestTypes == { RequestType(m) : m \in QueryMethods }

Schema(T) == IF T \in RequestTypes THEN RequestSchema(T) ELSE ResponseSchema(T)

DefaultOf(kind) ==
  CASE kind = "string" -> ""
    [] kind = "uint32" -> 0
    [] kind = "repeated" -> <<>>

\* T.encode(msg).finish(): the fields of msg that reach the wire.
Written(T, msg) ==
  { f \in DOMAIN msg \cap DOMAIN Schema(T) :
      \/ Schema(T)[f] = "message"
      \/ msg[f] # DefaultOf(Schema(T)[f]) }

encode(T, msg) ==
  [msgType |-> T, wire |-> [f \in Written(T, msg) |-> msg[f]]]

\* The fields of T a decoded message always carries.
AlwaysSet(T) == { f \in DOMAIN Schema(T) : Schema(T)[f] # "message" }

\* T.decode(data).  Bytes written with another message type do not line up
\* with T's fields: nothing is recognised, and T's defaults come out, with no
\* error.
decode(T, data) ==
  LET seen == IF data.msgType = T THEN DOMAIN data.wire ELSE {}
  IN  [f \in AlwaysSet(T) \cup seen |->
         IF f \in seen THEN data.wire[f] ELSE DefaultOf(Schema(T)[f])]

\* The shared default pagination descriptor of ../constants.
PAGE_REQUEST ==
  [key |-> <<>>, offset |-> "0", limit |-> "MAX_UNSIGNED_VALUE",
   countTotal |-> TRUE, reverse |-> FALSE]

(***************************************************************************)
(* Arguments of a call.  An optional parameter that the caller omits is    *)
(* Undefined; a required one is Some(value).                               *)
(***************************************************************************)
Addresses == {"dydx1a"}
Denoms == {"adv4tnt"}
Statuses == {"BOND_STATUS_BONDED"}

NoArgs == [address |-> Undefined, denom |-> "", number |-> 0, status |-> Undefined]

Args(m) ==
  CASE m \in { "getUserFeeTier", "getUserStats", "getAccountBalances", "getAccount",
               "getDelegatorDelegations", "getDelegatorUnbondingDelegations" } ->
         { [NoArgs EXCEPT !.address = Some(a)] : a \in Addresses }
    [] m = "getAccountBalance" ->
         { [NoArgs EXCEPT !.address = Some(a), !.denom = d] :
             a \in Addresses, d \in Denoms }
    [] m = "getSubaccount" ->
         { [NoArgs EXCEPT !.address = Some(a), !.number = n] :
             a \in Addresses, n \in Ids }
    [] m \in { "getClobPair", "getPrice", "getPerpetual" } ->
         { [NoArgs EXCEPT !.number = n] : n \in Ids }
    [] m = "getDelayedCompleteBridgeMessages" ->
         { NoArgs } \cup { [NoArgs EXCEPT !.address = Some(a)] : a \in Addresses }
    [] m = "getAllValidators" ->
         { NoArgs } \cup { [NoArgs EXCEPT !.status = Some(st)] : st \in Statuses }
    [] OTHER -> { NoArgs }

\* A parameter declared with a default value: `p: string = ''`.
DefaultParam(opt, dflt) == IF opt = Undefined THEN dflt ELSE The(opt)

\* The object literal each method passes to .encode.
requestMessage(m, a) ==
  CASE m \in { "getFeeTiers", "getRewardsParams", "getEquityTierLimitConfiguration",
               "getSubaccounts" } -> EmptyObject
    [] m \in { "getUserFeeTier", "getUserStats" } -> [user |-> The(a.address)]
    [] m \in { "getAccountBalances", "getAccount" } -> [address |-> The(a.address)]
    [] m = "getAccountBalance" -> [address |-> The(a.address), denom |-> a.denom]
    [] m = "getSubaccount" -> [owner |-> The(a.address), number |-> a.number]
    [] m \in { "getAllClobPairs", "getAllPrices", "getAllPerpetuals" } ->
         [pagination |-> PAGE_REQUEST]
    [] m \in { "getClobPair", "getPrice", "getPerpetual" } -> [id |-> a.number]
    [] m \in { "getDelegatorDelegations", "getDelegatorUnbondingDelegations" } ->
         [delegatorAddr |-> The(a.address), pagination |-> PAGE_REQUEST]
    [] m = "getDelayedCompleteBridgeMessages" ->
         [address |-> DefaultParam(a.address, "")]
    [] m = "getAllValidators" ->
         [status |-> DefaultParam(a.status, ""), pagination |-> PAGE_REQUEST]

\* The bytes a method hands to sendQuery.
requestData(m, a) == encode(RequestType(m), requestMessage(m, a))

\* sendQuery(requestUrl, requestData): the queryUnverified invocations it makes.
\* Variant: a second attempt follows the first.
sendQueryRetrying(url, data) ==
  << [path |-> url, data |-> data], [path |-> url, data |-> data] >>

sendQuery(url, data) == << [path |-> url, data |-> data] >>

\* accountFromAny: the account carried by a type-tagged envelope.
accountFromAny(any) ==
  LET base == IF any.typeUrl = "/cosmos.auth.v1beta1.BaseAccount"
              THEN any.value
              ELSE any.value.baseVestingAccount.baseAccount
  IN  [address |-> base.address, accountNumber |-> base.accountNumber,
       sequence |-> base.sequence]

\* The outcome of a call, as its caller sees the promise settle.
Resolved(v) == [status |-> "resolved", value |-> v, error |-> ""]
Rejected(e) == [status |-> "rejected", value |-> Undefined, error |-> e]
Pending == [status |-> "pending", value |-> Undefined, error |-> ""]

\* getUserStats returns the stats field of the decoded response.
\* Variant: an unset stats field is treated as an unexpected response.
getUserStatsRequired(d) ==
  IF Field(d, "stats") = Undefined THEN Rejected("UnexpectedClientError")
  ELSE Resolved(Field(d, "stats"))

getUserStatsResult(d) == Resolved(Field(d, "stats"))

\* getAccountBalances returns the balances field.
getAccountBalancesResult(d) == Resolved(Some(d.balances))

\* getAccountBalance returns the balance field, set or not.
\* Variant: an unset balance is treated as an unexpected response.
getAccountBalanceRequired(d) ==
  IF Field(d, "balance") = Undefined THEN Rejected("UnexpectedClientError")
  ELSE Resolved(Field(d, "balance"))

getAccountBalanceResult(d) == Resolved(Field(d, "balance"))

\* getAccount throws when the account field is undefined, and otherwise
\* returns accountFromAny(rawAccount).
\* Variant: no check, undefined is passed on.
getAccountUnchecked(d) ==
  Resolved({ accountFromAny(rawAccount) : rawAccount \in Field(d, "account") })

getAccountResult(d) ==
  LET rawAccount == Field(d, "account")
  IN  IF rawAccount = Undefined
      THEN Rejected("UnexpectedClientError")
      ELSE Resolved(Some(accountFromAny(The(rawAccount))))

\* Every other query method returns the decoded response itself.
\* Variant: a response without its entity is rejected by the gateway.
decodedRequired(d) ==
  IF DOMAIN d = {} THEN Rejected("NotFound") ELSE Resolved(Some(d))

decodedResult(d) == Resolved(Some(d))

\* What each method returns from the decoded response.
returnValue(m, d) ==
  CASE m = "getUserStats" -> getUserStatsResult(d)
    [] m = "getAccountBalances" -> getAccountBalancesResult(d)
    [] m = "getAccountBalance" -> getAccountBalanceResult(d)
    [] m = "getAccount" -> getAccountResult(d)
    [] OTHER -> decodedResult(d)

(***************************************************************************)
(* The node behind the transport.  Each path is served by one rpc of the   *)
(* protocol's query services, which reads one request message type and     *)
(* writes one response message type.                                       *)
(***************************************************************************)
ServiceRegistry(path) ==
  CASE path = "/dydxprotocol.feetiers.Query/PerpetualFeeParams" ->
         [req |-> "FeeTierModule.QueryPerpetualFeeParamsRequest",
          resp |-> "FeeTierModule.QueryPerpetualFeeParamsResponse"]
    [] path = "/dydxprotocol.feetiers.Query/UserFeeTier" ->
         [req |-> "FeeTierModule.QueryUserFeeTierRequest",
          resp |-> "FeeTierModule.QueryUserFeeTierResponse"]
    [] path = "/dydxprotocol.stats.Query/UserStats" ->
         [req |-> "StatsModule.QueryUserStatsRequest",
          resp |-> "StatsModule.QueryUserStatsResponse"]
    [] path = "/cosmos.bank.v1beta1.Query/AllBalances" ->
         [req |-> "BankModule.QueryAllBalancesRequest",
          resp |-> "BankModule.QueryAllBalancesResponse"]
    [] path = "/cosmos.bank.v1beta1.Query/Balance" ->
         [req |-> "BankModule.QueryBalanceRequest",
          resp |-> "BankModule.QueryBalanceResponse"]
    [] path = "/dydxprotocol.subaccounts.Query/SubaccountAll" ->
         [req |-> "SubaccountsModule.QueryAllSubaccountRequest",
          resp |-> "SubaccountsModule.QuerySubaccountAllResponse"]
    [] path = "/dydxprotocol.subaccounts.Query/Subaccount" ->
         [req |-> "SubaccountsModule.QueryGetSubaccountRequest",
          resp |-> "SubaccountsModule.QuerySubaccountResponse"]
    [] path = "/dydxprotocol.rewards.Query/Params" ->
         [req |-> "RewardsModule.QueryParamsRequest",
          resp |-> "RewardsModule.QueryParamsResponse"]
    [] path = "/dydxprotocol.clob.Query/ClobPairAll" ->
         [req |-> "ClobModule.QueryAllClobPairRequest",
          resp |-> "ClobModule.QueryClobPairAllResponse"]
    [] path = "/dydxprotocol.clob.Query/ClobPair" ->
         [req |-> "ClobModule.QueryGetClobPairRequest",
          resp |-> "ClobModule.QueryClobPairResponse"]
    [] path = "/dydxprotocol.prices.Query/AllMarketPrices" ->
         [req |-> "PricesModule.QueryAllMarketPricesRequest",
          resp |-> "PricesModule.QueryAllMarketPricesResponse"]
    [] path = "/dydxprotocol.prices.Query/MarketPrice" ->
         [req |-> "PricesModule.QueryMarketPriceRequest",
          resp |-> "PricesModule.QueryMarketPriceResponse"]
    [] path = "/dydxprotocol.perpetuals.Query/AllPerpetuals" ->
         [req |-> "PerpetualsModule.QueryAllPerpetualsRequest",
          resp |-> "PerpetualsModule.QueryAllPerpetualsResponse"]
    [] path = "/dydxprotocol.perpetuals.Query/Perpetual" ->
         [req |-> "PerpetualsModule.QueryPerpetualRequest",
          resp |-> "PerpetualsModule.QueryPerpetualResponse"]
    [] path = "/cosmos.auth.v1beta1.Query/Account" ->
         [req |-> "AuthModule.QueryAccountRequest",
          resp |-> "AuthModule.QueryAccountResponse"]
    [] path = "/dydxprotocol.clob.Query/EquityTierLimitConfiguration" ->
         [req |-> "ClobModule.QueryEquityTierLimitConfigurationRequest",
          resp |-> "ClobModule.QueryEquityTierLimitConfigurationResponse"]
    [] path = "/cosmos.staking.v1beta1.Query/DelegatorDelegations" ->
         [req |-> "StakingModule.QueryDelegatorDelegationsRequest",
          resp |-> "StakingModule.QueryDelegatorDelegationsResponse"]
    [] path = "/cosmos.staking.v1beta1.Query/DelegatorUnbondingDelegations" ->
         [req |-> "StakingModule.QueryDelegatorUnbondingDelegationsRequest",
          resp |-> "StakingModule.QueryDelegatorUnbondingDelegationsResponse"]
    [] path = "/dydxprotocol.bridge.Query/DelayedCompleteBridgeMessages" ->
         [req |-> "BridgeModule.QueryDelayedCompleteBridgeMessagesRequest",
          resp |-> "BridgeModule.QueryDelayedCompleteBridgeMessagesResponse"]
    [] path = "/cosmos.staking.v1beta1.Query/Validators" ->
         [req |-> "StakingModule.QueryValidatorsRequest",
          resp |-> "StakingModule.QueryValidatorsResponse"]

\* Values the node puts into its responses.
BaseAccountAny ==
  [typeUrl |-> "/cosmos.auth.v1beta1.BaseAccount",
   value |-> [address |-> "dydx1a", accountNumber |-> "7", sequence |-> "3"]]

VestingAccountAny ==
  [typeUrl |-> "/cosmos.vesting.v1beta1.ContinuousVestingAccount",
   value |-> [baseVestingAccount |->
                [baseAccount |-> [address |-> "dydx1a", accountNumber |-> "8",
                                  sequence |-> "0"]]]]

SomeCoin == [denom |-> "adv4tnt", amount |-> "100"]

\* The subaccount the node reports for one that was never created.
DefaultSubaccount ==
  [id |-> [owner |-> "dydx1a", number |-> "0"], assetPositions |-> <<>>,
   perpetualPositions |-> <<>>, marginEnabled |-> FALSE]

FundedSubaccount ==
  [DefaultSubaccount EXCEPT !.assetPositions = << [assetId |-> "0", quantums |-> "5"] >>]

SomeItem == [name |-> "item"]

\* The response messages the rpc writing message type T may send.
ServiceResponses(T) ==
  CASE T = "AuthModule.QueryAccountResponse" ->
         { EmptyObject, [account |-> BaseAccountAny], [account |-> VestingAccountAny] }
    [] T = "BankModule.QueryBalanceResponse" ->
         { EmptyObject, [balance |-> SomeCoin] }
    [] T = "BankModule.QueryAllBalancesResponse" ->
         { [balances |-> <<>>], [balances |-> << SomeCoin >>] }
    [] T = "StatsModule.QueryUserStatsResponse" ->
         { EmptyObject, [stats |-> [takerNotional |-> "5", makerNotional |-> "0"]] }
    [] T = "SubaccountsModule.QuerySubaccountResponse" ->
         { [subaccount |-> DefaultSubaccount], [subaccount |-> FundedSubaccount] }
    [] T = "FeeTierModule.QueryUserFeeTierResponse" ->
         { [index |-> 0, tier |-> SomeItem], [index |-> 1, tier |-> SomeItem] }
    [] OTHER ->
         LET f == CHOOSE g \in DOMAIN ResponseSchema(T) : TRUE
         IN  IF ResponseSchema(T)[f] = "message"
             THEN { EmptyObject, [g \in {f} |-> SomeItem] }
             ELSE { [g \in {f} |-> <<>>], [g \in {f} |-> << SomeItem >>] }

\* Errors the transport may reject with.
TransportErrors == { "NotFound", "Unavailable" }

Ok(data) == [ok |-> TRUE, data |-> data, error |-> ""]
Fail(e) == [ok |-> FALSE, data |-> <<>>, error |-> e]

\* The outcomes queryUnverified may have for a path.
Fixtures(path) ==
  { Ok(encode(ServiceRegistry(path).resp, msg)) :
      msg \in ServiceResponses(ServiceRegistry(path).resp) }
  \cup { Fail(e) : e \in TransportErrors }

\* The blocks tendermintClient.getBlock may return.
Blocks == { [header |-> [height |-> h], id |-> "block"] : h \in {12345, 12346} }

BlockOutcomes == { Ok(b) : b \in Blocks } \cup { Fail(e) : e \in TransportErrors }

(***************************************************************************)
(* State.  The Get object itself holds two readonly references and nothing *)
(* else; everything below is per call, or belongs to the transport.        *)
(***************************************************************************)
VARIABLES
  pc,            \* call -> "idle" | "awaiting" | "settled" | "done"
  method,        \* call -> the method invoked ("" while idle)
  args,          \* call -> its arguments
  requests,      \* call -> the queryUnverified invocations it made, in order
  blockQueries,  \* call -> the number of tendermintClient.getBlock invocations it made
  reply,         \* call -> the outcome its awaited promise settled with, if settled
  trace,         \* call -> the steps it has taken, in order
  result,        \* call -> the outcome of the call
  decodedAs,     \* call -> the message type its continuation decoded with, if it did
  fixture        \* path -> the outcome the transport serves for it, once chosen

vars ==
  << pc, method, args, requests, blockQueries, reply, trace, result, decodedAs, fixture >>

Init ==
  /\ pc = [c \in CallIds |-> "idle"]
  /\ method = [c \in CallIds |-> ""]
  /\ args = [c \in CallIds |-> NoArgs]
  /\ requests = [c \in CallIds |-> <<>>]
  /\ blockQueries = [c \in CallIds |-> 0]
  /\ reply = [c \in CallIds |-> Undefined]
  /\ trace = [c \in CallIds |-> <<>>]
  /\ result = [c \in CallIds |-> Pending]
  /\ decodedAs = [c \in CallIds |-> Undefined]
  /\ fixture = [p \in Paths |-> Undefined]

\* Calls are numbered in the order they are made.
Fresh(c) == pc[c] = "idle" /\ (IF c = 1 THEN TRUE ELSE pc[c - 1] # "idle")

\* A query method up to its await: build the request, encode it, sendQuery.
InvokeQuery(c, m, a) ==
  /\ Fresh(c)
  /\ LET sent == sendQuery(requestUrl(m), requestData(m, a))
     IN  /\ requests' = [requests EXCEPT ![c] = sent]
         /\ trace' = [trace EXCEPT ![c] =
                        << "encode" >> \o [i \in 1..Len(sent) |-> "queryUnverified"]]
  /\ method' = [method EXCEPT ![c] = m]
  /\ args' = [args EXCEPT ![c] = a]
  /\ pc' = [pc EXCEPT ![c] = "awaiting"]
  /\ UNCHANGED << blockQueries, reply, result, decodedAs, fixture >>

\* The tendermintClient.getBlock invocations of latestBlock / latestBlockHeight
\* (latestBlockHeight awaits this.latestBlock()).
getBlockCalls(m) == 1

\* latestBlock / latestBlockHeight up to the await.
InvokeBlock(c, m) ==
  /\ Fresh(c)
  /\ blockQueries' = [blockQueries EXCEPT ![c] = getBlockCalls(m)]
  /\ trace' = [trace EXCEPT ![c] = [i \in 1..getBlockCalls(m) |-> "getBlock"]]
  /\ method' = [method EXCEPT ![c] = m]
  /\ pc' = [pc EXCEPT ![c] = "awaiting"]
  /\ UNCHANGED << args, requests, reply, result, decodedAs, fixture >>

\* The transport settles the queryUnverified promise of call c: with the
\* outcome it serves for the path of the request it was handed.
TransportSettle(c) ==
  /\ pc[c] = "awaiting"
  /\ method[c] \in QueryMethods
  /\ LET p == requests[c][1].path
     IN  \E o \in (IF fixture[p] = Undefined THEN Fixtures(p) ELSE fixture[p]) :
           /\ fixture' = [fixture EXCEPT ![p] = Some(o)]
           /\ reply' = [reply EXCEPT ![c] = Some(o)]
           /\ trace' = [trace EXCEPT ![c] =
                          Append(@, IF o.ok THEN "resolved" ELSE "rejected")]
  /\ pc' = [pc EXCEPT ![c] = "settled"]
  /\ UNCHANGED << method, args, requests, blockQueries, result, decodedAs >>

\* The tendermint client settles the getBlock promise of call c.
BlockSettle(c) ==
  /\ pc[c] = "awaiting"
  /\ method[c] \in BlockMethods
  /\ \E o \in BlockOutcomes :
       /\ reply' = [reply EXCEPT ![c] = Some(o)]
       /\ trace' = [trace EXCEPT ![c] =
                      Append(@, IF o.ok THEN "resolved" ELSE "rejected")]
  /\ pc' = [pc EXCEPT ![c] = "settled"]
  /\ UNCHANGED << method, args, requests, blockQueries, result, decodedAs, fixture >>

\* What `await` hands to the continuation of call c: the outcome of its own
\* promise.
\* Variant: the gateway keeps the last reply in a field shared by all calls.
awaitedShared(c) ==
  LET others == { d \in CallIds : d # c /\ reply[d] # Undefined }
  IN  IF others = {} THEN The(reply[c]) ELSE The(reply[CHOOSE d \in others : TRUE])

awaited(c) == The(reply[c])

\* A rejected await throws out of the async method: the call rejects with the
\* same error.
\* Variant: the error is caught and the call resolves with undefined.
onRejectedSwallowed(e) == Resolved(Undefined)

onRejected(e) == Rejected(e)

\* latestBlock returns the block, latestBlockHeight its header.height.
\* Variant: the height of the next block.
blockValueOffByOne(m, block) ==
  IF m = "latestBlockHeight" THEN Resolved(Some(block.header.height + 1))
  ELSE Resolved(Some(block))

blockValue(m, block) ==
  IF m = "latestBlockHeight" THEN Resolved(Some(block.header.height))
  ELSE Resolved(Some(block))

\* The part of a method after its await.
continuation(m, rep) ==
  IF ~rep.ok THEN onRejected(rep.error)
  ELSE IF m \in BlockMethods THEN blockValue(m, rep.data)
  ELSE returnValue(m, decode(ResponseType(m), rep.data))

\* The message type the continuation decodes with, when it gets to decode.
decodeType(m, rep) ==
  IF rep.ok /\ m \in QueryMethods THEN Some(ResponseType(m)) ELSE Undefined

\* The steps the continuation takes.
continuationSteps(m, rep) ==
  LET r == continuation(m, rep)
      end == IF r.status = "resolved" THEN "return" ELSE "throw"
  IN  IF rep.ok /\ m \in QueryMethods THEN << "decode", end >> ELSE << end >>

\* The continuation of call c runs.
Resume(c) ==
  /\ pc[c] = "settled"
  /\ result' = [result EXCEPT ![c] = continuation(method[c], awaited(c))]
  /\ trace' = [trace EXCEPT ![c] = @ \o continuationSteps(method[c], awaited(c))]
  /\ decodedAs' = [decodedAs EXCEPT ![c] = decodeType(method[c], awaited(c))]
  /\ pc' = [pc EXCEPT ![c] = "done"]
  /\ UNCHANGED << method, args, requests, blockQueries, reply, fixture >>

Next ==
  \/ \E c \in CallIds, m \in QueryMethods : \E a \in Args(m) : InvokeQuery(c, m, a)
  \/ \E c \in CallIds, m \in BlockMethods : InvokeBlock(c, m)
  \/ \E c \in CallIds : TransportSettle(c)
  \/ \E c \in CallIds : BlockSettle(c)
  \/ \E c \in CallIds : Resume(c)

Spec == Init /\ [][Next]_vars

(***************************************************************************)
(* Properties.                                                             *)
(***************************************************************************)
Range(seq) == { seq[i] : i \in 1..Len(seq) }

Started(c) == pc[c] # "idle"
Done(c) == pc[c] = "done"
\* The request call c handed to the transport, and the bytes it got back.
Sent(c) == requests[c][1]
Got(c) == The(reply[c])
TransportOk(c) == Done(c) /\ method[c] \in QueryMethods /\ Got(c).ok
TransportFailed(c) == Done(c) /\ method[c] \in QueryMethods /\ ~Got(c).ok

C2_TransportErrorPropagates ==
  \A c \in CallIds :
    TransportFailed(c) =>
      /\ result[c].status = "rejected"
      /\ result[c].error = Got(c).error
      /\ result[c].value = Undefined
      /\ decodedAs[c] = Undefined
      /\ "decode" \notin Range(trace[c])

C2_Witness ==
  \E c \in CallIds :
    /\ TransportFailed(c) /\ method[c] = "getClobPair"
    /\ Got(c).error = "NotFound" /\ result[c].error = "NotFound"

\* C3: latestBlockHeight resolves to header.height of the block getBlock
\* returned, with one getBlock query and no queryUnverified call.
C3_LatestBlockHeight ==
  \A c \in CallIds :
    (Started(c) /\ method[c] = "latestBlockHeight") =>
      /\ blockQueries[c] = 1
      /\ requests[c] = <<>>
      /\ (Done(c) /\ Got(c).ok) =>
           result[c] = Resolved(Some(Got(c).data.header.height))

C3_Witness ==
  \E c \in CallIds :
    /\ Done(c) /\ method[c] = "latestBlockHeight"
    /\ Got(c).ok /\ Got(c).data.header.height = 12345
    /\ result[c].value = {12345}

\* C4: getAccountBalance, on a successful transport call, returns undefined
\* without an error when the response has no balance, and the response's
\* (denom, amount) pair unchanged when it has one.
C4_GetAccountBalanceAbsentOrPair ==
  \A c \in CallIds :
    (TransportOk(c) /\ method[c] = "getAccountBalance") =>
      LET wire == Got(c).data.wire
      IN  /\ result[c].status = "resolved"
          /\ "balance" \notin DOMAIN wire => result[c].value = Undefined
          /\ "balance" \in DOMAIN wire =>
               /\ result[c].value = Some(wire.balance)
               /\ The(result[c].value).denom = "adv4tnt"
               /\ The(result[c].value).amount = "100"

C4_Witness ==
  \E c \in CallIds :
    /\ TransportOk(c) /\ method[c] = "getAccountBalance"
    /\ "balance" \notin DOMAIN Got(c).data.wire
    /\ result[c] = Resolved(Undefined)

\* C5: every list-returning query method sends a request that carries the
\* default pagination descriptor PAGE_REQUEST.
C5_ListQueriesCarryPageRequest ==
  \A c \in CallIds :
    (Started(c) /\ method[c] \in ListMethods) =>
      /\ "pagination" \in DOMAIN Sent(c).data.wire
      /\ Sent(c).data.wire.pagination = PAGE_REQUEST

\* C6: with calls in flight together against a transport that serves one
\* fixed outcome per path, every call ends with the outcome of its own path,
\* whatever the order in which the transport settles them.
C6_EachCallGetsItsOwnFixture ==
  \A c \in CallIds :
    (Done(c) /\ method[c] \in QueryMethods) =>
      LET own == fixture[requestUrl(method[c])]
      IN  /\ own # Undefined
          /\ reply[c] = own
          /\ result[c] = continuation(method[c], The(own))
          /\ The(own).ok => decodedAs[c] = Some(The(own).data.msgType)
          /\ ~The(own).ok => result[c].error = The(own).error

C6_Witness ==
  /\ pc[1] = "settled" /\ pc[2] = "done"
  /\ method[1] = "getAccountBalances" /\ method[2] = "getAccount"
  /\ Got(1).ok /\ Got(2).ok
  /\ result[2].status = "resolved"

\* C7: a path is used by exactly one query method, and the message types a
\* method encodes and decodes with are those of the rpc behind its path.
C7_PathAndTypesMatch ==
  \A c \in CallIds :
    (Started(c) /\ method[c] \in QueryMethods) =>
      /\ \A d \in CallIds :
           (Started(d) /\ method[d] \in QueryMethods) =>
             (Sent(c).path = Sent(d).path <=> method[c] = method[d])
      /\ Sent(c).data.msgType = ServiceRegistry(Sent(c).path).req
      /\ decodedAs[c] # Undefined =>
           decodedAs[c] = Some(ServiceRegistry(Sent(c).path).resp)

C7_Witness ==
  \E c, d \in CallIds :
    /\ method[c] = "getClobPair" /\ method[d] = "getAllClobPairs"
    /\ Sent(c).path = "/dydxprotocol.clob.Query/ClobPair"
    /\ Sent(c).data.msgType = "ClobModule.QueryGetClobPairRequest"
    /\ decodedAs[c] = Some("ClobModule.QueryClobPairResponse")
    /\ decodedAs[d] # Undefined

ById == { "getClobPair", "getPerpetual", "getPrice" }

\* C8: getClobPair, getPerpetual and getPrice send a request for every id and
\* are rejected exactly when the transport rejects.
C8_ByIdRejectsOnlyWithTransport ==
  \A c \in CallIds :
    (Started(c) /\ method[c] \in ById) =>
      /\ Len(requests[c]) = 1
      /\ Sent(c).data.wire =
           (IF args[c].number = 0 THEN EmptyObject ELSE [id |-> args[c].number])
      /\ Done(c) => (result[c].status = "rejected" <=> ~Got(c).ok)

C8_Witness ==
  \E c \in CallIds :
    /\ Done(c) /\ method[c] = "getPerpetual" /\ args[c].number = MaxId
    /\ ~Got(c).ok /\ result[c].status = "rejected"

\* The fields a decoded response carries for the fields on the wire.
CarriesWire(v, wire) == \A f \in DOMAIN wire : f \in DOMAIN v /\ v[f] = wire[f]

\* C9: only getAccount raises UnexpectedClientError; every other query
\* method returns what it decoded from a successful reply, empty or not, and
\* getSubaccount returns the zeroed default subaccount as delivered.
C9_OnlyGetAccountRaisesUnexpected ==
  \A c \in CallIds :
    /\ result[c].error = "UnexpectedClientError" => method[c] = "getAccount"
    /\ (TransportOk(c) /\ method[c] # "getAccount") =>
         LET wire == Got(c).data.wire
         IN  /\ result[c].status = "resolved"
             /\ CASE method[c] = "getUserStats" ->
                       result[c].value = Field(wire, "stats")
                  [] method[c] = "getAccountBalance" ->
                       result[c].value = Field(wire, "balance")
                  [] method[c] = "getAccountBalances" ->
                       result[c].value =
                         (IF "balances" \in DOMAIN wire THEN Some(wire.balances)
                          ELSE Some(<<>>))
                  [] OTHER ->
                       /\ result[c].value # Undefined
                       /\ CarriesWire(The(result[c].value), wire)

C9_Witness ==
  \E c \in CallIds :
    /\ TransportOk(c) /\ method[c] = "getSubaccount"
    /\ result[c] = Resolved(Some([subaccount |-> DefaultSubaccount]))

\* The orders of steps a query call may go through.
QuerySteps ==
  { << "encode", "queryUnverified", "resolved", "decode", "return" >>,
    << "encode", "queryUnverified", "resolved", "decode", "throw" >>,
    << "encode", "queryUnverified", "rejected", "throw" >> }

IsPrefix(s, t) == Len(s) <= Len(t) /\ s = SubSeq(t, 1, Len(s))

\* C10: a query call makes exactly one transport call, succeed or fail, in
\* the order encode, transport call, transport settles, decode; it decodes
\* only after the transport has resolved.
C10_OneTransportCallInOrder ==
  \A c \in CallIds :
    (Started(c) /\ method[c] \in QueryMethods) =>
      /\ Len(requests[c]) = 1
      /\ \E t \in QuerySteps : IsPrefix(trace[c], t)
      /\ Done(c) => trace[c] \in QuerySteps
      /\ decodedAs[c] # Undefined => (reply[c] # Undefined /\ Got(c).ok)

C10_Witness ==
  \E c \in CallIds :
    /\ Done(c) /\ method[c] = "getAccountBalances"
    /\ trace[c] = << "encode", "queryUnverified", "rejected", "throw" >>
    /\ Len(requests[c]) = 1

====
